---- MODULE Spec2Model ----
(***************************************************************************)
(* The projection calculator (buildProjection, lib/projection.ts) as a     *)
(* state machine: one Call step for the code before the loop, one Step per *)
(* compounding period, one Return step for the totals.                     *)
(*                                                                         *)
(* A JavaScript number is a fixed-point decimal: the integer v stands for  *)
(* v / Scale.  Multiplication, division, roots and powers round down to    *)
(* 1/Scale, where the code rounds to the nearest double.  The frequencies, *)
(* the months and the period counter are whole numbers in the code and are *)
(* kept unscaled.  Percentages are scaled too: 10 * Scale is 10%.          *)
(***************************************************************************)
EXTENDS Integers, Sequences, FiniteSets, TLC

Scale == 10000

Null == -1

MaxYears == 3

(***************************************************************************)
(* Arithmetic on fixed-point numbers.                                      *)
(***************************************************************************)
Min(a, b) == IF a <= b THEN a ELSE b

Max(a, b) == IF a >= b THEN a ELSE b

\* a * b, both scaled; split so that no intermediate exceeds 32 bits
Mul(a, b) == (a \div Scale) * b + ((a % Scale) * b) \div Scale

\* a / b, both scaled, b > 0
Div(a, b) == (a \div b) * Scale + ((a % b) * Scale) \div b

\* a / b for whole numbers a and b, as a scaled number
Ratio(a, b) == (a * Scale) \div b

\* Math.ceil of a scaled number, as a whole number
Ceil(v) == (v + Scale - 1) \div Scale

RECURSIVE GCD(_, _)
GCD(a, b) == IF b = 0 THEN a ELSE GCD(b, a % b)

\* base^n by repeated squaring; the smaller power is bound through a
\* one-element set, which evaluates it once
RECURSIVE PowInt(_, _)
PowInt(base, n) ==
  IF n = 0 THEN Scale
  ELSE IF n % 2 = 0
       THEN CHOOSE p \in {Mul(half, half) : half \in {PowInt(base, n \div 2)}} : TRUE
       ELSE CHOOSE p \in {Mul(q, base) : q \in {PowInt(base, n - 1)}} : TRUE

\* base^n, or cap + 1 as soon as the power exceeds cap
RECURSIVE PowCap(_, _, _)
PowCap(base, n, cap) ==
  IF n = 0 THEN Scale
  ELSE IF n % 2 = 0
       THEN CHOOSE p \in {Min(Mul(half, half), cap + 1) :
                            half \in {PowCap(base, n \div 2, cap)}} : TRUE
       ELSE CHOOSE p \in {Min(Mul(q, base), cap + 1) :
                            q \in {PowCap(base, n - 1, cap)}} : TRUE

\* the largest r in lo..hi with r^d <= x, by bisection (lo^d <= x < (hi+1)^d)
RECURSIVE RootIn(_, _, _, _)
RootIn(x, d, lo, hi) ==
  IF lo = hi THEN lo
  ELSE LET mid == (lo + hi + 1) \div 2
       IN IF PowCap(mid, d, Max(x, Scale)) <= x THEN RootIn(x, d, mid, hi)
          ELSE RootIn(x, d, lo, mid - 1)

\* the d-th root of x > 0: the largest r with r^d <= x
Root(x, d) == IF d = 1 THEN x ELSE RootIn(x, d, Min(x, Scale), Max(x, Scale))

\* Math.pow(base, e) for a scaled exponent e >= 0
Pow(base, e) ==
  LET whole == e \div Scale
      rem == e % Scale
      g == GCD(rem, Scale)
  IN IF rem = 0 THEN PowInt(base, whole)
     ELSE Mul(PowInt(base, whole), PowInt(Root(base, Scale \div g), rem \div g))

\* Number(v.toFixed(2)): v rounded to the nearest hundredth
ToFixed2(v) ==
  LET cent == Scale \div 100
  IN ((2 * v + cent) \div (2 * cent)) * cent

VARIABLES
  settings,            \* the settings argument
  options,             \* the options argument
  pc,                  \* "idle", "loop" (inside buildProjection) or "done" (returned)
  periodicRate,        \* line 154
  period,              \* the loop counter
  balance,
  totalContributions,
  fireYear,
  previousGrowth,
  chartPoints,
  table,
  rowPeriods,          \* history: the period at which each row of table was pushed
  result,              \* the returned ProjectionResult
  calls,               \* history: how many times buildProjection was entered
  firstResult,         \* history: what the first call returned
  purchaseDate,        \* dates.ts: the purchaseDate argument, a date string
  referenceDate,       \* dates.ts: the referenceDate argument (App.tsx: now)
  dateResult,          \* what the date helpers returned for these two
  withdrawalDate,      \* App.tsx: what getWithdrawalDate returned, with its argument
  previousWithdrawalDate, \* history: the same for the call before
  scenarios,           \* App.tsx: the scenarios state
  scenarioAnalyses,    \* App.tsx: scenarioAnalyses, as far as it is computed
  chartData,           \* App.tsx: chartData
  hasConfigAPI,        \* whether window.configAPI exists
  loading,             \* App.tsx: the loading state
  load,                \* where the initial load stands
  debounce,            \* the pending timers of the autosave effect, oldest first
  saves,               \* history: the payloads handed to configAPI.save, in order
  activeScenarioId,    \* App.tsx: the activeScenarioId state
  created,             \* history: how many scenario ids createScenarioId has made
  deletes              \* history: how many times the delete button was clicked

projectionVars == <<settings, options, pc, periodicRate, period, balance,
                    totalContributions, fireYear, previousGrowth, chartPoints,
                    table, rowPeriods, result, calls, firstResult>>

dateVars == <<purchaseDate, referenceDate, dateResult>>

withdrawalVars == <<withdrawalDate, previousWithdrawalDate>>

chartVars == <<scenarios, scenarioAnalyses, chartData>>

saveVars == <<hasConfigAPI, loading, load, debounce, saves>>

scenarioVars == <<activeScenarioId, created, deletes>>

\* everything outside buildProjection
appVars == <<dateVars, withdrawalVars, chartVars, saveVars, scenarioVars>>

vars == <<projectionVars, appVars>>

locals == <<periodicRate, period, balance, totalContributions, fireYear,
            previousGrowth, chartPoints, table, rowPeriods>>

(***************************************************************************)
(* projection.ts                                                           *)
(***************************************************************************)
WITHDRAWAL_RATE == (4 * Scale) \div 100

\* the three numbers that are not finite, as values outside the range in use
NaN == -1000000001

PosInfinity == 1000000001

NegInfinity == -1000000002

\* Number.isFinite
IsFinite(value) == value \notin {NaN, PosInfinity, NegInfinity}

\* mutant: Math.max(value, 1), which also replaces the positive values below 1
clampAtLeastOne(value, fallback) ==
  IF IsFinite(value) /\ value >= fallback THEN value ELSE fallback

\* mutant: zero passes the test
clampNonNegative(value, fallback) ==
  IF IsFinite(value) /\ value >= 0 THEN value ELSE fallback

\* lines 127-128
clampPositive(value, fallback) ==
  IF IsFinite(value) /\ value > 0 THEN value ELSE fallback

getNetAnnualRate(expectedReturnPct, expensesPct) ==
  LET grossReturn == expectedReturnPct \div 100
      expenseDrag == expensesPct \div 100
  IN Mul(Scale + grossReturn, Scale - expenseDrag) - Scale

\* the constants buildProjection derives from its arguments before the loop
Compounding(s) == clampPositive(s.compoundingFrequency, 1)

Years(s) == clampPositive(s.years, Scale)

InflationRate(s) == s.inflationRate \div 100

FireNumber(s) == s.annualExpenses * 25

\* mutant: the contribution is not spread over the compounding periods
ContributionPerPeriodFlat(s) == s.contribution

\* lines 140-141
ContributionPerPeriod(s) ==
  Mul(s.contribution, Ratio(s.contributionFrequency, Compounding(s)))

HasMonths(o) == "remainingContributionMonths" \in DOMAIN o

\* mutant: the months are taken as given, without the clamp to 0..12
UnclampedContributionMonths(o) ==
  IF HasMonths(o) THEN o.remainingContributionMonths ELSE 12

\* lines 143-146
NormalizedContributionMonths(o) ==
  Min(Max(IF HasMonths(o) THEN o.remainingContributionMonths ELSE 12, 0), 12)

FirstYearContributionFactor(o) == Ratio(NormalizedContributionMonths(o), 12)

GrowthFactor(s) ==
  Max(Scale + getNetAnnualRate(s.annualReturn, s.fundExpenseRatio + s.platformFee), 1)

PeriodicRate(s) == Root(GrowthFactor(s), Compounding(s)) - Scale

TotalPeriods(s) == Ceil(Years(s) * Compounding(s))

\* mutant: the first chart point carries no balance
FirstChartPointZero(s) == [year |-> 0, balance |-> 0]

\* line 157: the chart point emitted before the loop
FirstChartPoint(s) == [year |-> 0, balance |-> s.principal]

\* mutant: previousGrowth is kept from the previous call
KeptPreviousGrowth == previousGrowth

\* line 163
StartPreviousGrowth == 0

\* mutant: the year-0 check needs the balance to exceed the target
InitialFireYearStrict(fireNumber, startBalance) ==
  IF fireNumber > 0 /\ startBalance > fireNumber THEN 0 ELSE Null

\* lines 162-168: fireYear before the loop
InitialFireYear(fireNumber, startBalance) ==
  IF fireNumber > 0 /\ startBalance >= fireNumber THEN 0 ELSE Null

\* lines 172-173
AdjustedContribution(s, o, p) ==
  LET contributionFactor ==
        IF p <= Compounding(s) THEN FirstYearContributionFactor(o) ELSE Scale
  IN Mul(ContributionPerPeriod(s), contributionFactor)

\* mutant: only a zero contribution is skipped
ContributeNonZero(amount, adjustedContribution) ==
  IF adjustedContribution # 0 THEN amount + adjustedContribution ELSE amount

\* mutant: the contribution is added whatever its sign
ContributeAlways(amount, adjustedContribution) == amount + adjustedContribution

\* lines 175-178, applied alike to balance and totalContributions
Contribute(amount, adjustedContribution) ==
  IF adjustedContribution > 0 THEN amount + adjustedContribution ELSE amount

\* mutant: the contribution is added first and grows within its own period
ContributeThenGrow(amount, rate, adjustedContribution) ==
  Mul(Contribute(amount, adjustedContribution), Scale + rate)

\* lines 171-178: the balance of a period, growth first and contribution after
GrowThenContribute(amount, rate, adjustedContribution) ==
  Contribute(Mul(amount, Scale + rate), adjustedContribution)

\* mutant: the final period is no boundary of its own
IsYearBoundaryWhole(p, compounding, totalPeriods) == p % compounding = 0

\* line 180
IsYearBoundary(p, compounding, totalPeriods) ==
  p % compounding = 0 \/ p = totalPeriods

\* line 182
YearLabel(p, compounding) == ToFixed2(Ratio(p, compounding))

\* lines 185-186
RealBalance(s, nominal, year) == Div(nominal, Pow(Scale + InflationRate(s), year))

\* mutant: the final balance is discounted over the label of the last row
EndingBalanceAtLabel(s, nominal) ==
  RealBalance(s, nominal, YearLabel(TotalPeriods(s), Compounding(s)))

\* mutant: the final balance is not discounted
EndingBalanceNominal(s, nominal) == nominal

\* lines 209-210: the final balance discounted over the clamped years
EndingBalance(s, nominal) == RealBalance(s, nominal, Years(s))

\* mutant: fireYear is overwritten at every boundary that meets the target
NextFireYearLatest(fireNumber, current, year, realBalance) ==
  IF fireNumber > 0 /\ realBalance >= fireNumber THEN year ELSE current

\* mutant: a zero target counts as reached
NextFireYearNoGuard(fireNumber, current, year, realBalance) ==
  IF current = Null /\ realBalance >= fireNumber THEN year ELSE current

\* lines 189-191
NextFireYear(fireNumber, current, year, realBalance) ==
  IF fireNumber > 0 /\ current = Null /\ realBalance >= fireNumber THEN year ELSE current

\* mutant: growth is not clamped at zero
GrowthUnclamped(realBalance, contributed) == realBalance - contributed

\* line 193 (and line 213 for the totals)
Growth(realBalance, contributed) == Max(realBalance - contributed, 0)

\* mutant: the growth of the previous boundary is not subtracted
AnnualInterestTotal(currentGrowth, previous) == currentGrowth

\* line 194
AnnualInterest(currentGrowth, previous) == currentGrowth - previous

\* lines 198-205
Row(year, realBalance, contributed, currentGrowth, annualInterest) ==
  [year |-> year,
   endingBalance |-> realBalance,
   contributions |-> contributed,
   growth |-> currentGrowth,
   annualInterest |-> annualInterest,
   allowedWithdrawal |-> Mul(realBalance, WITHDRAWAL_RATE)]

\* lines 223-227
FireMetrics(fireNumber, year) ==
  [fireNumber |-> fireNumber, yearsToFire |-> year, fireYear |-> year]

(***************************************************************************)
(* dates.ts.  A date string is a record: its shape and the three numbers   *)
(* written in it, in the order they are written (a-b-c or a/b/c).  A Date  *)
(* object is its local time in hours; NullDate is null and the Invalid     *)
(* Date alike.                                                             *)
(***************************************************************************)
HoursPerDay == 24

NullDate == -1

\* the empty string
Empty == [shape |-> "empty", a |-> 0, b |-> 0, c |-> 0]

\* a string of the shape of ISO_DATE_PATTERN (line 1): YYYY-MM-DD
Iso(year, month, day) == [shape |-> "iso", a |-> year, b |-> month, c |-> day]

\* a string of the shape of SLASH_DATE_PATTERN (line 2): DD/MM/YYYY
Slash(day, month, year) == [shape |-> "slash", a |-> day, b |-> month, c |-> year]

\* year-MM-DD with a year that is not written in four digits, such as
\* "999-05-15": not of the shape of ISO_DATE_PATTERN
ShortYear(year, month, day) ==
  [shape |-> "shortYear", a |-> year, b |-> month, c |-> day]

\* a date spelled in words, such as "May 15, 2024"
Words(year, month, day) == [shape |-> "words", a |-> year, b |-> month, c |-> day]

\* a string with a slash that is not of the DD/MM/YYYY shape, such as "1/2/2024"
LooseSlash == [shape |-> "looseSlash", a |-> 0, b |-> 0, c |-> 0]

\* a string that is no date at all, such as "soon"
Junk == [shape |-> "junk", a |-> 0, b |-> 0, c |-> 0]

\* the day number of a calendar date whose month is in 1..12; day may be
\* any whole number and runs over into the neighbouring months
DaysFromCivil(year, month, day) ==
  LET y == IF month <= 2 THEN year - 1 ELSE year
      era == y \div 400
      yoe == y - era * 400
      mp == IF month > 2 THEN month - 3 ELSE month + 9
      doy == (153 * mp + 2) \div 5 + day - 1
      doe == yoe * 365 + yoe \div 4 - yoe \div 100 + doy
  IN era * 146097 + doe - 719468

\* the calendar date of a day number
CivilFromDays(days) ==
  LET z == days + 719468
      era == z \div 146097
      doe == z - era * 146097
      yoe == (doe - doe \div 1460 + doe \div 36524 - doe \div 146096) \div 365
      doy == doe - (365 * yoe + yoe \div 4 - yoe \div 100)
      mp == (5 * doy + 2) \div 153
      month == IF mp < 10 THEN mp + 3 ELSE mp - 9
  IN [year |-> yoe + era * 400 + (IF month <= 2 THEN 1 ELSE 0),
      month |-> month,
      day |-> doy - (153 * mp + 2) \div 5 + 1]

\* new Date(year, monthIndex, day): local midnight; months and days out of
\* range run over, and a year in 0..99 counts from 1900
DateOf(year, monthIndex, day) ==
  LET full == IF year \in 0..99 THEN 1900 + year ELSE year
      months == full * 12 + monthIndex
  IN (DaysFromCivil(months \div 12, (months % 12) + 1, 1) + day - 1) * HoursPerDay

GetFullYear(date) == CivilFromDays(date \div HoursPerDay).year

\* 0-based, as Date.prototype.getMonth
GetMonth(date) == CivilFromDays(date \div HoursPerDay).month - 1

GetDate(date) == CivilFromDays(date \div HoursPerDay).day

\* lines 33-38: month and day are padded to two digits, the year is written
\* as the number it is
toIsoDateString(date) ==
  IF GetFullYear(date) \in 1000..9999
  THEN Iso(GetFullYear(date), GetMonth(date) + 1, GetDate(date))
  ELSE ShortYear(GetFullYear(date), GetMonth(date) + 1, GetDate(date))

\* lines 40-56
buildIsoFromParts(year, month, day) ==
  IF year = 0 \/ month = 0 \/ day = 0 THEN Empty
  ELSE LET parsed == DateOf(year, month - 1, day)
       IN IF \/ GetFullYear(parsed) # year
             \/ GetMonth(parsed) # month - 1
             \/ GetDate(parsed) # day
          THEN Empty
          ELSE toIsoDateString(parsed)

\* line 25, new Date(value) for the strings that get there: the engine reads
\* a/b/c as month/day/year, with a month in 1..12 and a day in 1..31, and
\* three numbers joined by dashes as year-month-day when the first is no day
ParseDate(value) ==
  CASE value.shape = "words" -> DateOf(value.a, value.b - 1, value.c)
    [] value.shape = "shortYear" ->
         IF value.a > 99 /\ value.b \in 1..12 /\ value.c \in 1..31
         THEN DateOf(value.a, value.b - 1, value.c)
         ELSE NullDate
    [] value.shape = "slash" ->
         IF value.a \in 1..12 /\ value.b \in 1..31
         THEN DateOf(value.c, value.a - 1, value.b)
         ELSE NullDate
    [] value.shape = "junk" -> NullDate

\* lines 4-31
normalizeDateValue(value) ==
  IF value.shape = "empty" THEN Empty
  ELSE IF value.shape = "looseSlash" THEN Empty
  ELSE IF value.shape = "iso" THEN value
  ELSE IF /\ value.shape = "slash"
          /\ buildIsoFromParts(value.c, value.b, value.a) # Empty
       THEN buildIsoFromParts(value.c, value.b, value.a)
  ELSE IF ParseDate(value) = NullDate THEN Empty
  ELSE toIsoDateString(ParseDate(value))

\* lines 58-71
parseNormalizedDate(value) ==
  IF value.shape # "iso" THEN NullDate
  ELSE DateOf(value.a, value.b - 1, value.c)

\* lines 73-78
formatDayMonthYear(date) == Slash(GetDate(date), GetMonth(date) + 1, GetFullYear(date))

\* lines 80-88
formatDateForInput(value) ==
  LET parsed == parseNormalizedDate(normalizeDateValue(value))
  IN IF parsed = NullDate THEN Empty ELSE formatDayMonthYear(parsed)

\* the reference date with its time of day removed (lines 111-115, 123-127)
StartOfDay(date) == DateOf(GetFullYear(date), GetMonth(date), GetDate(date))

\* mutant: a purchase made today counts as a future one
IsLaterOrSame(purchase, today) == purchase >= today

\* line 116
IsLater(purchase, today) == purchase > today

\* lines 101-117
isPurchaseDateInFuture(value, reference) ==
  LET purchase == parseNormalizedDate(normalizeDateValue(value))
  IN IF purchase = NullDate THEN FALSE
     ELSE IsLater(purchase, StartOfDay(reference))

\* mutant: the month of the reference date is counted as a whole month
MonthsDifferenceInclusive(today, yearEnd) ==
  (GetFullYear(yearEnd) - GetFullYear(today)) * 12
    + (GetMonth(yearEnd) - GetMonth(today)) + 1

\* lines 138-140
MonthsDifference(today, yearEnd) ==
  (GetFullYear(yearEnd) - GetFullYear(today)) * 12
    + (GetMonth(yearEnd) - GetMonth(today))

\* mutant: the month is also dropped when today is on the day of the year end
DayOnOrBefore(yearEnd, today) == GetDate(yearEnd) <= GetDate(today)

\* line 142: the day of the year end lies before today's day of the month
DayBefore(yearEnd, today) == GetDate(yearEnd) < GetDate(today)

\* lines 119-147
getWholeMonthsUntilYearEnd(value, reference) ==
  LET today == StartOfDay(reference)
      yearEnd == DateOf(GetFullYear(today), 11, 31)
      months == MonthsDifference(today, yearEnd)
  IN IF isPurchaseDateInFuture(value, reference) THEN 0
     ELSE IF yearEnd <= today THEN 0
     ELSE IF DayBefore(yearEnd, today) THEN Max(months - 1, 0)
     ELSE Max(months, 0)

(***************************************************************************)
(* App.tsx: the payout date shown for a table row.                         *)
(***************************************************************************)
\* mutant: the whole years gone by are added to the current year
PayoutYearFloor(currentYear, yearValue) ==
  Max(currentYear + yearValue \div Scale, currentYear)

\* line 505
PayoutYear(currentYear, yearValue) ==
  Max(currentYear - 1 + Ceil(yearValue), currentYear)

\* lines 504-511
getWithdrawalDate(currentYear, yearValue) ==
  LET payoutYear == PayoutYear(currentYear, yearValue)
      iso == Iso(payoutYear, 12, 31)
  IN [iso |-> iso,
      label |-> IF formatDateForInput(iso) # Empty THEN formatDateForInput(iso)
                ELSE Slash(31, 12, payoutYear)]

NoOptions == [k \in {} |-> 0]

NoResult == [k \in {} |-> 0]

\* whole years 1..MaxYears and two fractional horizons
YearsGrid == {y * Scale : y \in 1..MaxYears} \cup {Scale \div 2, (3 * Scale) \div 2}

SettingsGrid ==
  [principal : {0, 1000 * Scale, 10000 * Scale},
   contribution : {-100 * Scale, 0, 100 * Scale},
   contributionFrequency : {12},
   annualReturn : {-50 * Scale, 0, 10 * Scale},
   compoundingFrequency : {1, 2, 4, 12},
   years : YearsGrid,
   fundExpenseRatio : {0, Scale},
   platformFee : {0},
   inflationRate : {0, 3 * Scale, 100 * Scale},
   annualExpenses : {0, 16 * Scale, 400 * Scale}]

OptionsGrid ==
  {NoOptions} \cup [remainingContributionMonths : {0, 6}]

\* weekly and daily compounding, with horizons just past a whole year
SettingsFine ==
  [principal : {1000 * Scale},
   contribution : {100 * Scale},
   contributionFrequency : {12},
   annualReturn : {10 * Scale},
   compoundingFrequency : {52, 365},
   years : {Scale, Scale + Scale \div 1000, Scale + Scale \div 100, 2 * Scale},
   fundExpenseRatio : {Scale \div 2},
   platformFee : {Scale \div 2},
   inflationRate : {3 * Scale},
   annualExpenses : {0, 80 * Scale}]

\* the parts of the application a specification does not exercise stay as they are
DatesIdle == purchaseDate = Empty /\ referenceDate = 0 /\ dateResult = NoResult

WithdrawalIdle == withdrawalDate = NoResult /\ previousWithdrawalDate = NoResult

ChartIdle == scenarios = << >> /\ scenarioAnalyses = << >> /\ chartData = << >>

SaveIdle ==
  /\ hasConfigAPI = FALSE
  /\ loading = TRUE
  /\ load = "unmounted"
  /\ debounce = << >>
  /\ saves = << >>

ScenarioIdle == activeScenarioId = "default" /\ created = 0 /\ deletes = 0

AppIdle == DatesIdle /\ WithdrawalIdle /\ ChartIdle /\ SaveIdle /\ ScenarioIdle

Init ==
  /\ AppIdle
  /\ \/ settings \in SettingsGrid /\ options \in OptionsGrid
     \/ settings \in SettingsFine /\ options = NoOptions
  /\ pc = "idle"
  /\ periodicRate = 0
  /\ period = 0
  /\ balance = 0
  /\ totalContributions = 0
  /\ fireYear = Null
  /\ previousGrowth = 0
  /\ chartPoints = << >>
  /\ table = << >>
  /\ rowPeriods = << >>
  /\ result = NoResult
  /\ calls = 0
  /\ firstResult = NoResult

\* lines 134-168: the derived constants, the first chart point, the year-0 check
Enter ==
  /\ pc' = "loop"
  /\ periodicRate' = PeriodicRate(settings)
  /\ chartPoints' = <<FirstChartPoint(settings)>>
  /\ table' = << >>
  /\ rowPeriods' = << >>
  /\ balance' = settings.principal
  /\ totalContributions' = settings.principal
  /\ previousGrowth' = StartPreviousGrowth
  /\ fireYear' = InitialFireYear(FireNumber(settings), settings.principal)
  /\ period' = 1
  /\ calls' = calls + 1
  /\ UNCHANGED <<settings, options, result, appVars>>

\* the first call of buildProjection(settings, options)
Call ==
  /\ pc = "idle"
  /\ Enter
  /\ UNCHANGED firstResult

\* lines 170-207: one iteration of the period loop
Step ==
  /\ pc = "loop"
  /\ period <= TotalPeriods(settings)
  /\ LET compounding == Compounding(settings)
         adjustedContribution == AdjustedContribution(settings, options, period)
         newBalance == GrowThenContribute(balance, periodicRate, adjustedContribution)
         newContributions == Contribute(totalContributions, adjustedContribution)
         year == YearLabel(period, compounding)
         realBalance == RealBalance(settings, newBalance, year)
         currentGrowth == Growth(realBalance, newContributions)
         annualInterest == AnnualInterest(currentGrowth, previousGrowth)
     IN /\ balance' = newBalance
        /\ totalContributions' = newContributions
        /\ IF IsYearBoundary(period, compounding, TotalPeriods(settings))
           THEN /\ fireYear' =
                     NextFireYear(FireNumber(settings), fireYear, year, realBalance)
                /\ previousGrowth' = currentGrowth
                /\ chartPoints' =
                     Append(chartPoints, [year |-> year, balance |-> realBalance])
                /\ table' = Append(table,
                     Row(year, realBalance, newContributions, currentGrowth, annualInterest))
                /\ rowPeriods' = Append(rowPeriods, period)
           ELSE UNCHANGED <<fireYear, previousGrowth, chartPoints, table, rowPeriods>>
  /\ period' = period + 1
  /\ UNCHANGED <<settings, options, pc, periodicRate, result, calls, firstResult,
               appVars>>

\* lines 209-228: the totals and the returned object
Return ==
  /\ pc = "loop"
  /\ period > TotalPeriods(settings)
  /\ LET realEndingBalance == EndingBalance(settings, balance)
     IN result' = [chartPoints |-> chartPoints,
                   table |-> table,
                   totals |-> [contributions |-> totalContributions,
                               growth |-> Growth(realEndingBalance, totalContributions),
                               endingBalance |-> realEndingBalance],
                   fireMetrics |-> FireMetrics(FireNumber(settings), fireYear)]
  /\ pc' = "done"
  /\ UNCHANGED <<settings, options, locals, calls, firstResult, appVars>>

Next == Call \/ Step \/ Return

Spec == Init /\ [][Next]_vars

(***************************************************************************)
(* Two calls in a row with the same arguments (App.tsx recomputes the      *)
(* projection of every scenario whenever the scenario list changes).       *)
(***************************************************************************)
MaxCalls == 2

CallAgain ==
  /\ pc = "done"
  /\ calls < MaxCalls
  /\ firstResult' = IF calls = 1 THEN result ELSE firstResult
  /\ Enter

NextTwice == Next \/ CallAgain

\* the second call runs on a few of the settings of the grid
InitTwice ==
  /\ Init
  /\ settings.compoundingFrequency \in {1, 4, 52}
  /\ settings.principal > 0

SpecTwice == InitTwice /\ [][NextTwice]_vars

(***************************************************************************)
(* Settings outside the documented domain: years and compoundingFrequency  *)
(* that are not finite, zero, negative, or positive and below 1.  The loop *)
(* is synchronous code, so every step that can be taken is taken.          *)
(***************************************************************************)
SettingsClamp ==
  [principal : {1000 * Scale},
   contribution : {100 * Scale},
   contributionFrequency : {12},
   annualReturn : {10 * Scale},
   compoundingFrequency : {NaN, PosInfinity, NegInfinity, -1, 0, 1, 4},
   years : {NaN, PosInfinity, NegInfinity, -Scale, 0, Scale \div 4, Scale \div 2,
            Scale, 2 * Scale},
   fundExpenseRatio : {0},
   platformFee : {0},
   inflationRate : {3 * Scale},
   annualExpenses : {0, 40 * Scale}]

InitClamp ==
  /\ AppIdle
  /\ settings \in SettingsClamp
  /\ options \in OptionsGrid
  /\ pc = "idle"
  /\ periodicRate = 0
  /\ period = 0
  /\ balance = 0
  /\ totalContributions = 0
  /\ fireYear = Null
  /\ previousGrowth = 0
  /\ chartPoints = << >>
  /\ table = << >>
  /\ rowPeriods = << >>
  /\ result = NoResult
  /\ calls = 0
  /\ firstResult = NoResult

SpecClamp == InitClamp /\ [][Next]_vars /\ WF_vars(Next)

(***************************************************************************)
(* The remainingContributionMonths option over its whole range: omitted,   *)
(* below 0, inside 0..12 and above 12.                                     *)
(***************************************************************************)
SettingsMonths ==
  [principal : {0, 1000 * Scale},
   contribution : {-100 * Scale, 0, 100 * Scale},
   contributionFrequency : {6, 12},
   annualReturn : {10 * Scale},
   compoundingFrequency : {1, 2, 4, 12},
   years : {Scale \div 2, Scale, 2 * Scale},
   fundExpenseRatio : {0},
   platformFee : {0},
   inflationRate : {3 * Scale},
   annualExpenses : {0}]

OptionsMonths ==
  {NoOptions} \cup [remainingContributionMonths : {-3, 0, 6, 12, 15}]

InitMonths ==
  /\ AppIdle
  /\ settings \in SettingsMonths
  /\ options \in OptionsMonths
  /\ pc = "idle"
  /\ periodicRate = 0
  /\ period = 0
  /\ balance = 0
  /\ totalContributions = 0
  /\ fireYear = Null
  /\ previousGrowth = 0
  /\ chartPoints = << >>
  /\ table = << >>
  /\ rowPeriods = << >>
  /\ result = NoResult
  /\ calls = 0
  /\ firstResult = NoResult

SpecMonths == InitMonths /\ [][Next]_vars

(***************************************************************************)
(* The date helpers, called on one purchase date and one reference date.   *)
(***************************************************************************)
ProjectionIdle ==
  /\ settings \in {s \in SettingsFine : s.compoundingFrequency = 52 /\ s.years = Scale
                                          /\ s.annualExpenses = 0}
  /\ options = NoOptions
  /\ pc = "idle"
  /\ periodicRate = 0
  /\ period = 0
  /\ balance = 0
  /\ totalContributions = 0
  /\ fireYear = Null
  /\ previousGrowth = 0
  /\ chartPoints = << >>
  /\ table = << >>
  /\ rowPeriods = << >>
  /\ result = NoResult
  /\ calls = 0
  /\ firstResult = NoResult

\* the numbers tried as the year, month and day of a date string
YearFields == {2023, 2024, 2025}

MonthFields == {0, 1, 2, 4, 5, 6, 12, 13}

DayFields == {0, 1, 15, 16, 29, 30, 31, 45}

PurchaseDates ==
  {Empty, LooseSlash, Junk}
    \cup {Iso(y, m, d) : y \in YearFields, m \in MonthFields, d \in DayFields}
    \cup {Slash(d, m, y) : y \in YearFields, m \in MonthFields, d \in DayFields}
    \cup {Words(2024, 5, d) : d \in {15, 16}}
    \cup {Slash(d, 5, 999) : d \in {15, 16}}

\* year, 0-based month and day of the reference dates, each at two times of day
ReferenceDays ==
  {<<2024, 4, 15>>, <<2024, 1, 29>>, <<2024, 11, 31>>, <<2024, 0, 31>>,
   <<2024, 11, 1>>, <<2023, 11, 31>>, <<2025, 5, 30>>}

ReferenceDates == {DateOf(r[1], r[2], r[3]) + h : r \in ReferenceDays, h \in {0, 13}}

InitDates ==
  /\ ProjectionIdle
  /\ WithdrawalIdle
  /\ ScenarioIdle
  /\ ChartIdle
  /\ SaveIdle
  /\ purchaseDate \in PurchaseDates
  /\ referenceDate \in ReferenceDates
  /\ dateResult = NoResult

\* the three exported helpers applied to the same arguments
ReadPurchaseDate ==
  /\ dateResult = NoResult
  /\ dateResult' =
       [normalized |-> normalizeDateValue(purchaseDate),
        renormalized |-> normalizeDateValue(normalizeDateValue(purchaseDate)),
        inFuture |-> isPurchaseDateInFuture(purchaseDate, referenceDate),
        months |-> getWholeMonthsUntilYearEnd(purchaseDate, referenceDate)]
  /\ UNCHANGED <<projectionVars, purchaseDate, referenceDate, withdrawalVars, scenarioVars,
                 chartVars, saveVars>>

NextDates == ReadPurchaseDate

SpecDates == InitDates /\ [][NextDates]_vars

(***************************************************************************)
(* getWithdrawalDate, called for one row after another.                    *)
(***************************************************************************)
\* line 316
CurrentYear == GetFullYear(referenceDate)

\* the year values of the rows of a table, and a few that are none
YearValues ==
  {-(Scale \div 2), 0, 1, Scale + 1} \cup {(k * Scale) \div 4 : k \in 1..(4 * MaxYears)}

InitWithdrawal ==
  /\ ProjectionIdle
  /\ ChartIdle
  /\ SaveIdle
  /\ purchaseDate = Empty
  /\ dateResult = NoResult
  /\ referenceDate \in ReferenceDates
  /\ WithdrawalIdle
  /\ ScenarioIdle

GetWithdrawalDate ==
  \E yearValue \in YearValues :
    /\ previousWithdrawalDate' = withdrawalDate
    /\ withdrawalDate' = [yearValue |-> yearValue,
                          date |-> getWithdrawalDate(CurrentYear, yearValue)]
    /\ UNCHANGED <<projectionVars, dateVars, chartVars, saveVars, scenarioVars>>

NextWithdrawal == GetWithdrawalDate

SpecWithdrawal == InitWithdrawal /\ [][NextWithdrawal]_vars

(***************************************************************************)
(* App.tsx: the projections of all scenarios (scenarioAnalyses) and their  *)
(* chart points merged by year (chartData).                                *)
(***************************************************************************)
\* entry[id] = value, as an assignment to a property of an object
Put(entry, id, value) ==
  [k \in (DOMAIN entry) \cup {id} |-> IF k = id THEN value ELSE entry[k]]

\* lines 339-341: yearMap is kept as its entries in insertion order
SetPoint(yearMap, id, point) ==
  IF \E i \in DOMAIN yearMap : yearMap[i].year = point.year
  THEN [i \in DOMAIN yearMap |->
          IF yearMap[i].year = point.year
          THEN [year |-> point.year, entry |-> Put(yearMap[i].entry, id, point.balance)]
          ELSE yearMap[i]]
  ELSE Append(yearMap, [year |-> point.year,
                        entry |-> Put([k \in {} |-> 0], id, point.balance)])

\* line 338: projection.chartPoints.forEach, from point i on
RECURSIVE AddPoints(_, _, _, _)
AddPoints(yearMap, id, points, i) ==
  IF i > Len(points) THEN yearMap
  ELSE AddPoints(SetPoint(yearMap, id, points[i]), id, points, i + 1)

\* line 337: scenarioAnalyses.forEach, from analysis i on
RECURSIVE AddAnalyses(_, _, _)
AddAnalyses(yearMap, analyses, i) ==
  IF i > Len(analyses) THEN yearMap
  ELSE AddAnalyses(AddPoints(yearMap, analyses[i].scenario.id,
                             analyses[i].projection.chartPoints, 1),
                   analyses, i + 1)

\* line 346: { year, ...entry }
Record(year, entry) ==
  [k \in {"year"} \cup DOMAIN entry |-> IF k \in DOMAIN entry THEN entry[k] ELSE year]

\* a record put into a list that is ascending by year, after the records of
\* the same year
RECURSIVE Insert(_, _)
Insert(sorted, r) ==
  IF sorted = << >> THEN <<r>>
  ELSE IF Head(sorted).year - r.year > 0 THEN <<r>> \o sorted
  ELSE <<Head(sorted)>> \o Insert(Tail(sorted), r)

RECURSIVE SortFrom(_, _, _)
SortFrom(sorted, records, i) ==
  IF i > Len(records) THEN sorted
  ELSE SortFrom(Insert(sorted, records[i]), records, i + 1)

\* mutant: the records stay in the order in which their years were first seen
KeepOrder(records) == records

\* line 347: .sort((a, b) => a.year - b.year)
SortByYear(records) == SortFrom(<< >>, records, 1)

\* lines 335-349
ChartData(analyses) ==
  LET yearMap == AddAnalyses(<< >>, analyses, 1)
  IN SortByYear([i \in DOMAIN yearMap |-> Record(yearMap[i].year, yearMap[i].entry)])

\* settings with different year grids; the last ones run daily for 1.001 years
ChartSettings ==
  {s \in SettingsGrid :
     /\ s.principal = 1000 * Scale
     /\ s.contribution = 100 * Scale
     /\ s.annualReturn = 10 * Scale
     /\ s.compoundingFrequency \in {1, 2}
     /\ s.fundExpenseRatio = 0
     /\ s.inflationRate = 3 * Scale
     /\ s.annualExpenses = 0}
  \cup {s \in SettingsFine :
          /\ s.compoundingFrequency = 365
          /\ s.years = Scale + Scale \div 1000
          /\ s.annualExpenses = 0}

ScenarioIds == <<"default", "scenario-2">>

\* a scenario list with the given settings, in this order
ScenariosOf(settingsList) ==
  [i \in DOMAIN settingsList |->
     [id |-> ScenarioIds[i], name |-> 0, color |-> i, settings |-> settingsList[i]]]

\* line 283: months of the scenario's purchase date (none is set here)
RemainingMonths == getWholeMonthsUntilYearEnd(Empty, referenceDate)

InitChart ==
  /\ purchaseDate = Empty
  /\ dateResult = NoResult
  /\ referenceDate \in {DateOf(2024, 4, 15) + 13, DateOf(2024, 11, 31)}
  /\ WithdrawalIdle
  /\ ScenarioIdle
  /\ SaveIdle
  /\ scenarios \in {ScenariosOf(<<s1, s2>>) : s1 \in ChartSettings, s2 \in ChartSettings}
  /\ scenarioAnalyses = << >>
  /\ chartData = << >>
  /\ settings = scenarios[1].settings
  /\ options = [remainingContributionMonths |-> RemainingMonths]
  /\ pc = "idle"
  /\ periodicRate = 0
  /\ period = 0
  /\ balance = 0
  /\ totalContributions = 0
  /\ fireYear = Null
  /\ previousGrowth = 0
  /\ chartPoints = << >>
  /\ table = << >>
  /\ rowPeriods = << >>
  /\ result = NoResult
  /\ calls = 0
  /\ firstResult = NoResult

\* lines 282-288: the analysis of one scenario is complete; the next scenario's
\* projection is called for
Collect ==
  /\ pc = "done"
  /\ Len(scenarioAnalyses) < Len(scenarios)
  /\ scenarioAnalyses' =
       Append(scenarioAnalyses,
              [scenario |-> scenarios[Len(scenarioAnalyses) + 1],
               remainingContributionMonths |-> RemainingMonths,
               projection |-> result])
  /\ IF Len(scenarioAnalyses) + 1 < Len(scenarios)
     THEN /\ settings' = scenarios[Len(scenarioAnalyses) + 2].settings
          /\ pc' = "idle"
     ELSE UNCHANGED <<settings, pc>>
  /\ UNCHANGED <<options, locals, result, calls, firstResult, dateVars,
                 withdrawalVars, scenarioVars, scenarios, chartData, saveVars>>

\* lines 335-349
MergeChart ==
  /\ Len(scenarioAnalyses) = Len(scenarios)
  /\ chartData = << >>
  /\ chartData' = ChartData(scenarioAnalyses)
  /\ UNCHANGED <<projectionVars, dateVars, withdrawalVars, scenarioVars, scenarios,
                 scenarioAnalyses, saveVars>>

NextChart == Call \/ Step \/ Return \/ Collect \/ MergeChart

SpecChart == InitChart /\ [][NextChart]_vars

(***************************************************************************)
(* App.tsx: the initial load and the autosave effect.  Every handler runs  *)
(* to completion together with the effects of the render it causes.  The  *)
(* load promise settles, its callbacks run and a timer that is not cleared *)
(* fires; the user may stop editing at any time.                           *)
(***************************************************************************)
MaxEdits == 5

\* DEFAULT_SETTINGS
DefaultSettings ==
  [principal |-> 10000 * Scale,
   contribution |-> 500 * Scale,
   contributionFrequency |-> 12,
   annualReturn |-> 7 * Scale,
   compoundingFrequency |-> 12,
   years |-> 20 * Scale,
   fundExpenseRatio |-> (7 * Scale) \div 100,
   platformFee |-> 0,
   inflationRate |-> 2 * Scale,
   annualExpenses |-> 24000 * Scale]

\* line 96
getDefaultScenarios == ScenariosOf(<<DefaultSettings>>)

\* lines 120-121
ensureScenarios(list) == IF Len(list) > 0 THEN list ELSE getDefaultScenarios

\* what configAPI.load() may resolve to: nothing stored, an empty list, or one
\* scenario saved earlier
StoredConfigs ==
  {[scenarios |-> << >>],
   [scenarios |-> <<[id |-> "scenario-2", name |-> 0, color |-> 2,
                     settings |-> DefaultSettings]>>]}

\* mutant: the effect returns no cleanup, the timer of the previous run stays
KeepTimeout(timers) == timers

\* line 269: the cleanup of the previous run of the effect
ClearTimeout(timers) == << >>

\* lines 256-270: the autosave effect run again after a render that changed
\* scenarios or loading; the result is the list of pending timers, each with
\* the scenarios it will save
AutosaveEffect(timers, loadingNow, scenariosNow) ==
  IF loadingNow \/ ~hasConfigAPI THEN ClearTimeout(timers)
  ELSE Append(ClearTimeout(timers), scenariosNow)

(***************************************************************************)
(* App.tsx: the scenario list and the active scenario.  A handler yields   *)
(* the next scenarios and activeScenarioId; the render that follows runs   *)
(* the effect of lines 243-254 on them.                                    *)
(***************************************************************************)
\* lines 80-89: the palette, each color by its place; the first one is the
\* color of the default scenario
COLOR_PALETTE == <<1, 2, 3, 4, 5, 6, 7, 8>>

\* line 115: the generated color `hsl(${hue} 70% 50%)`, apart from the palette
Hsl(hue) == 1000 + hue

\* line 114: Math.round(((size + 1) * 137.508) % 360), in thousandths
Hue(size) == ((((size + 1) * 137508) % 360000) + 500) \div 1000

\* lines 444, 464: new Set(prev.map((scenario) => scenario.color))
ColorsOf(list) == {list[i].color : i \in DOMAIN list}

IdsOf(list) == {list[i].id : i \in DOMAIN list}

\* lines 106-118
getNextColor(usedColors) ==
  LET free == {i \in DOMAIN COLOR_PALETTE : COLOR_PALETTE[i] \notin usedColors}
  IN IF free # {}
     THEN COLOR_PALETTE[CHOOSE i \in free : \A j \in free : i <= j]
     ELSE Hsl(Hue(Cardinality(usedColors)))

\* lines 98-104: an id no scenario has had before, the n-th one made
createScenarioId(n) == "uuid-" \o ToString(n)

\* lines 143-148
ActiveScenario(list, active) ==
  IF active \in IdsOf(list)
  THEN list[CHOOSE i \in DOMAIN list :
              list[i].id = active /\ \A j \in 1..(i - 1) : list[j].id # active]
  ELSE list[1]

\* lines 243-254: the effect on [scenarios, activeScenarioId]
RepairEffect(list, active) ==
  IF Len(list) = 0
  THEN [scenarios |-> getDefaultScenarios,
        activeScenarioId |-> getDefaultScenarios[1].id]
  ELSE IF active = "" \/ active \notin IdsOf(list)
  THEN [scenarios |-> list, activeScenarioId |-> list[1].id]
  ELSE [scenarios |-> list, activeScenarioId |-> active]

\* lines 231-237: the active id after a load
LoadedActive(current, incoming) ==
  IF current # "" /\ current \in IdsOf(incoming) THEN current ELSE incoming[1].id

\* lines 442-456 (the text of a name is not followed: 0 is the name a
\* scenario is made with)
handleAddScenario(prev, id) ==
  [scenarios |-> Append(prev, [id |-> id,
                               name |-> 0,
                               color |-> getNextColor(ColorsOf(prev)),
                               settings |-> DefaultSettings]),
   activeScenarioId |-> id]

\* lines 458-476: the copy takes the settings of the active scenario
handleDuplicateScenario(prev, active, id) ==
  [scenarios |-> Append(prev, [id |-> id,
                               name |-> 0,
                               color |-> getNextColor(ColorsOf(prev)),
                               settings |-> ActiveScenario(prev, active).settings]),
   activeScenarioId |-> id]

\* mutant: the active scenario is removed whatever is left
handleDeleteUnguarded(prev, active) ==
  [scenarios |-> SelectSeq(prev, LAMBDA scenario : scenario.id # active),
   activeScenarioId |-> active]

\* lines 478-493
handleDeleteScenario(prev, active) ==
  LET filtered == SelectSeq(prev, LAMBDA scenario : scenario.id # active)
  IN IF Len(prev) <= 1 \/ Len(filtered) = 0
     THEN [scenarios |-> prev, activeScenarioId |-> active]
     ELSE [scenarios |-> filtered, activeScenarioId |-> filtered[1].id]

\* lines 495-502
resetDefaults ==
  [scenarios |-> getDefaultScenarios, activeScenarioId |-> getDefaultScenarios[1].id]

\* the render after a handler: the effect of lines 243-254, and the autosave
\* effect where the handler set a new scenarios array
Render(next, newArray) ==
  LET repaired == RepairEffect(next.scenarios, next.activeScenarioId)
  IN /\ scenarios' = repaired.scenarios
     /\ activeScenarioId' = repaired.activeScenarioId
     /\ debounce' = IF newArray
                     THEN AutosaveEffect(debounce, loading, repaired.scenarios)
                     ELSE debounce

InitSave ==
  /\ ProjectionIdle
  /\ DatesIdle
  /\ WithdrawalIdle
  /\ ScenarioIdle
  /\ scenarios = getDefaultScenarios
  /\ scenarioAnalyses = << >>
  /\ chartData = << >>
  /\ hasConfigAPI \in BOOLEAN
  /\ loading = TRUE
  /\ load = "unmounted"
  /\ debounce = << >>
  /\ saves = << >>

\* lines 219-228: the load effect of the first render
Mount ==
  /\ load = "unmounted"
  /\ IF hasConfigAPI
     THEN /\ load' = "pending"
          /\ UNCHANGED <<scenarios, loading, debounce>>
     ELSE /\ load' = "settled"
          /\ scenarios' = ensureScenarios(scenarios)
          /\ loading' = FALSE
          /\ debounce' = AutosaveEffect(debounce, FALSE, scenarios')
  /\ UNCHANGED <<projectionVars, dateVars, withdrawalVars, scenarioVars,
                 scenarioAnalyses, chartData, hasConfigAPI, saves>>

\* lines 228-238: the load resolved
LoadThen ==
  /\ load = "pending"
  /\ \E stored \in StoredConfigs :
       LET incoming == ensureScenarios(stored.scenarios)
       IN Render([scenarios |-> incoming,
                  activeScenarioId |-> LoadedActive(activeScenarioId, incoming)],
                 TRUE)
  /\ load' = "fulfilled"
  /\ UNCHANGED <<projectionVars, dateVars, withdrawalVars, created, deletes,
                 scenarioAnalyses, chartData, hasConfigAPI, loading, saves>>

\* line 239: the load failed
LoadCatch ==
  /\ load = "pending"
  /\ load' = "rejected"
  /\ UNCHANGED <<projectionVars, dateVars, withdrawalVars, scenarioVars, chartVars,
                 hasConfigAPI, loading, debounce, saves>>

\* line 240
LoadFinally ==
  /\ load \in {"fulfilled", "rejected"}
  /\ load' = "settled"
  /\ loading' = FALSE
  /\ debounce' = AutosaveEffect(debounce, FALSE, scenarios)
  /\ UNCHANGED <<projectionVars, dateVars, withdrawalVars, scenarioVars, chartVars,
                 hasConfigAPI, saves>>

\* lines 421-432: an edit of the active scenario (here its name, each time a
\* new one), at any time after the first render
EditScenario ==
  /\ load # "unmounted"
  /\ scenarios[1].name < MaxEdits
  /\ scenarios' = [scenarios EXCEPT ![1].name = @ + 1]
  /\ debounce' = AutosaveEffect(debounce, loading, scenarios')
  /\ UNCHANGED <<projectionVars, dateVars, withdrawalVars, scenarioVars, scenarioAnalyses,
                 chartData, hasConfigAPI, loading, load, saves>>

\* lines 262-267: the oldest pending timer fires after 350 ms
TimerFires ==
  /\ debounce # << >>
  /\ saves' = IF hasConfigAPI THEN Append(saves, Head(debounce)) ELSE saves
  /\ debounce' = Tail(debounce)
  /\ UNCHANGED <<projectionVars, dateVars, withdrawalVars, scenarioVars, chartVars,
                 hasConfigAPI, loading, load>>

NextSave == Mount \/ LoadThen \/ LoadCatch \/ LoadFinally \/ EditScenario \/ TimerFires

(***************************************************************************)
(* The scenario buttons, clicked in any order once the first render is     *)
(* over, while the initial load is pending or done.                        *)
(***************************************************************************)
MaxCreated == 10

MaxLoadedCreated == 3

MaxDeletes == 2

\* how many scenarios are created at most: enough to use up the palette where
\* nothing is loaded, a few where a stored configuration comes in
CreationBudget == IF hasConfigAPI THEN MaxLoadedCreated ELSE MaxCreated

\* lines 442-456: the Add button
AddScenario ==
  /\ load # "unmounted"
  /\ created < CreationBudget
  /\ created' = created + 1
  /\ Render(handleAddScenario(scenarios, createScenarioId(created')), TRUE)
  /\ UNCHANGED <<projectionVars, dateVars, withdrawalVars, deletes,
                 scenarioAnalyses, chartData, hasConfigAPI, loading, load, saves>>

\* lines 458-476: the Duplicate button
DuplicateScenario ==
  /\ load # "unmounted"
  /\ created < CreationBudget
  /\ created' = created + 1
  /\ Render(handleDuplicateScenario(scenarios, activeScenarioId,
                                    createScenarioId(created')), TRUE)
  /\ UNCHANGED <<projectionVars, dateVars, withdrawalVars, deletes,
                 scenarioAnalyses, chartData, hasConfigAPI, loading, load, saves>>

\* lines 478-493: the Delete button
DeleteScenario ==
  /\ load # "unmounted"
  /\ deletes < MaxDeletes
  /\ deletes' = deletes + 1
  /\ LET next == handleDeleteScenario(scenarios, activeScenarioId)
     IN Render(next, next.scenarios # scenarios)
  /\ UNCHANGED <<projectionVars, dateVars, withdrawalVars, created,
                 scenarioAnalyses, chartData, hasConfigAPI, loading, load, saves>>

\* lines 424-427: the scenario select, whose options are the scenarios
SwitchScenario ==
  /\ load # "unmounted"
  /\ \E id \in IdsOf(scenarios) :
       Render([scenarios |-> scenarios, activeScenarioId |-> id], FALSE)
  /\ UNCHANGED <<projectionVars, dateVars, withdrawalVars, created, deletes,
                 scenarioAnalyses, chartData, hasConfigAPI, loading, load, saves>>

\* lines 495-502: the Reset button
ResetDefaults ==
  /\ load # "unmounted"
  /\ Render(resetDefaults, TRUE)
  /\ UNCHANGED <<projectionVars, dateVars, withdrawalVars, created, deletes,
                 scenarioAnalyses, chartData, hasConfigAPI, loading, load, saves>>

NextScenarios ==
  \/ Mount \/ LoadThen \/ LoadCatch \/ LoadFinally
  \/ AddScenario \/ DuplicateScenario \/ DeleteScenario
  \/ SwitchScenario \/ ResetDefaults

\* the application started with a configuration API to load from
InitScenarios == InitSave /\ hasConfigAPI

SpecScenarios == InitScenarios /\ [][NextScenarios]_vars

\* the default list, nothing to load: scenarios are added, copied, selected
\* and deleted
InitColors == InitSave /\ ~hasConfigAPI

NextColors ==
  Mount \/ AddScenario \/ DuplicateScenario \/ DeleteScenario \/ SwitchScenario

SpecColors == InitColors /\ [][NextColors]_vars

SpecSave ==
  /\ InitSave
  /\ [][NextSave]_vars
  /\ WF_vars(Mount)
  /\ WF_vars(LoadThen \/ LoadCatch)
  /\ WF_vars(LoadFinally)
  /\ WF_vars(TimerFires)

(***************************************************************************)
(* Properties of the projection.                                           *)
(***************************************************************************)
LastRow == table[Len(table)]

\* the year of the first row of t whose discounted balance reaches target
FirstReachYear(t, target) ==
  IF \E i \in 1..Len(t) : t[i].endingBalance >= target
  THEN t[CHOOSE i \in 1..Len(t) :
           /\ t[i].endingBalance >= target
           /\ \A j \in 1..(i - 1) : t[j].endingBalance < target].year
  ELSE Null

ExpectedFireYear(t) ==
  IF settings.principal >= FireNumber(settings) THEN 0
  ELSE FirstReachYear(t, FireNumber(settings))

FireYearFollowsRows ==
  FireNumber(settings) > 0 =>
    /\ pc = "loop" => fireYear = ExpectedFireYear(table)
    /\ pc = "done" => result.fireMetrics.fireYear = ExpectedFireYear(result.table)

\* C1: with fireNumber > 0, fireYear is 0 when principal >= fireNumber, else the
\* year of the first table row whose discounted endingBalance is >= fireNumber,
\* else null; once fireYear is set no later step changes it.
C1_FireYearFirstReached ==
  /\ [](FireYearFollowsRows)
  /\ [][fireYear # Null => fireYear' = fireYear]_vars

\* C1 witness: the target was first met at a year boundary after year 0 and the
\* discounted balance of the last row is below it again.
C1_Witness ==
  /\ pc = "done"
  /\ Len(table) >= 2
  /\ fireYear # Null
  /\ fireYear > 0
  /\ fireYear < LastRow.year
  /\ LastRow.endingBalance < FireNumber(settings)

\* C2: the year labels of the table rows are strictly increasing.
C2_YearsStrictlyIncreasing ==
  \A i \in 1..(Len(table) - 1) : table[i].year < table[i + 1].year

\* C3: contributions is non-decreasing from each row to the next and the first
\* row's is no lower than principal, for every contribution amount and every
\* remainingContributionMonths.
C3_ContributionsNonDecreasing ==
  /\ \A i \in 1..Len(table) :
       /\ i = 1 => table[i].contributions >= settings.principal
       /\ i > 1 => table[i - 1].contributions <= table[i].contributions
  /\ pc = "done" => result.table = table

\* C3 witness: a finished run with a negative contribution and several rows.
C3_Witness ==
  /\ pc = "done"
  /\ settings.contribution < 0
  /\ HasMonths(options)
  /\ Len(result.table) >= 3

\* C4: growth is >= 0 in every table row and in totals, also when the
\* discounted balance is below the cumulative contributions.
C4_GrowthNonNegative ==
  /\ \A i \in 1..Len(table) : table[i].growth >= 0
  /\ pc = "done" =>
       /\ \A i \in 1..Len(result.table) : result.table[i].growth >= 0
       /\ result.totals.growth >= 0

\* C4 witness: a result whose discounted balance is below the contributions in
\* a row and in the totals.
C4_Witness ==
  /\ pc = "done"
  /\ \E i \in 1..Len(result.table) :
       /\ result.table[i].endingBalance < result.table[i].contributions
       /\ result.table[i].growth = 0
  /\ result.totals.endingBalance < result.totals.contributions
  /\ result.totals.growth = 0

\* C5: the first chart point is {year: 0, balance: principal}, undiscounted, and
\* it is there before any period is processed.
C5_FirstChartPoint ==
  /\ pc # "idle" =>
       /\ Len(chartPoints) >= 1
       /\ chartPoints[1] = [year |-> 0, balance |-> settings.principal]
  /\ (pc = "loop" /\ period = 1) => (Len(chartPoints) = 1 /\ Len(table) = 0)
  /\ pc = "done" =>
       result.chartPoints[1] = [year |-> 0, balance |-> settings.principal]

\* C5 witness: a result with inflation, a positive principal and later points.
C5_Witness ==
  /\ pc = "done"
  /\ settings.principal > 0
  /\ settings.inflationRate > 0
  /\ Len(result.chartPoints) >= 3

\* C6: if principal >= fireNumber > 0 the result has fireYear = 0 and
\* yearsToFire = 0 whatever the balance does later; yearsToFire equals fireYear
\* in every result.
C6_AlreadyFire ==
  pc = "done" =>
    /\ result.fireMetrics.yearsToFire = result.fireMetrics.fireYear
    /\ (FireNumber(settings) > 0 /\ settings.principal >= FireNumber(settings)) =>
         (result.fireMetrics.fireYear = 0 /\ result.fireMetrics.yearsToFire = 0)

\* C6 witness: principal equals the target and every row is below the target.
C6_Witness ==
  /\ pc = "done"
  /\ FireNumber(settings) > 0
  /\ settings.principal = FireNumber(settings)
  /\ \A i \in 1..Len(result.table) :
       result.table[i].endingBalance < FireNumber(settings)
  /\ result.fireMetrics.yearsToFire = 0

\* C7: with annualExpenses = 0, fireNumber is 0 and fireYear and yearsToFire are
\* null: a zero target is marked achieved neither at year 0 nor at a boundary.
C7_ZeroExpensesNeverFire ==
  settings.annualExpenses = 0 =>
    /\ fireYear = Null
    /\ pc = "done" =>
         result.fireMetrics = [fireNumber |-> 0, yearsToFire |-> Null, fireYear |-> Null]

\* C7 witness: a result for zero expenses whose balance is positive throughout.
C7_Witness ==
  /\ pc = "done"
  /\ settings.annualExpenses = 0
  /\ settings.principal > 0
  /\ Len(result.table) >= 2
  /\ result.fireMetrics.fireYear = Null

AnnualInterestIsGrowthStep(t) ==
  \A k \in 1..Len(t) :
    t[k].annualInterest = t[k].growth - (IF k = 1 THEN 0 ELSE t[k - 1].growth)

\* no contribution, no inflation, no fees, annual compounding
PlainAnnual ==
  /\ settings.contribution = 0
  /\ settings.inflationRate = 0
  /\ settings.fundExpenseRatio = 0
  /\ settings.platformFee = 0
  /\ Compounding(settings) = 1

\* the interest earned in year k on the balance at the end of year k - 1
InterestEarned(t, k) ==
  t[k].endingBalance - (IF k = 1 THEN settings.principal ELSE t[k - 1].endingBalance)

TestExample ==
  /\ PlainAnnual
  /\ settings.principal = 10000 * Scale
  /\ settings.annualReturn = 10 * Scale

ExampleInterest(t) ==
  /\ Len(t) >= 1 => t[1].annualInterest = 1000 * Scale
  /\ Len(t) >= 2 => t[2].annualInterest = 1100 * Scale

\* C8 as stated: annualInterest of row k is growth of row k minus growth of row
\* k-1; with zero contribution, inflation and fees and annual compounding it is
\* the interest earned in year k on the previous balance.
C8_AnnualInterestIsInterestEarned ==
  /\ AnnualInterestIsGrowthStep(table)
  /\ PlainAnnual => \A k \in 1..Len(table) : table[k].annualInterest = InterestEarned(table, k)
  /\ TestExample => ExampleInterest(table)

\* C8 amended: annualInterest of row k is growth of row k minus growth of row
\* k-1; with zero contribution, inflation and fees, annual compounding and an
\* annual return that is not negative it is the interest earned in year k on the
\* previous balance (10000 at 10%: 1000, then 1100).
C8_AnnualInterestAmended ==
  /\ AnnualInterestIsGrowthStep(table)
  /\ pc = "done" => AnnualInterestIsGrowthStep(result.table)
  /\ (PlainAnnual /\ settings.annualReturn >= 0) =>
       \A k \in 1..Len(table) : table[k].annualInterest = InterestEarned(table, k)
  /\ TestExample => ExampleInterest(table)

\* C8 witness: the worked example, 1000 in year 1 and 1100 in year 2.
C8_Witness ==
  /\ pc = "done"
  /\ TestExample
  /\ Len(result.table) = 2
  /\ result.table[1].annualInterest = 1000 * Scale
  /\ result.table[2].annualInterest = 1100 * Scale

\* the periods that get a row: the multiples of compounding and the final period
BoundaryPeriods(totalPeriods, compounding) ==
  {p \in 1..totalPeriods : p % compounding = 0} \cup {totalPeriods}

\* C9: with totalPeriods = ceil(years * compounding), table has exactly one row
\* per multiple of compounding in 1..totalPeriods plus one for the final period
\* when that is no multiple; it is never empty and its last row is the final
\* period's.
C9_OneRowPerBoundary ==
  /\ Len(table) = Len(rowPeriods)
  /\ \A i \in 1..(Len(rowPeriods) - 1) : rowPeriods[i] < rowPeriods[i + 1]
  /\ pc = "done" =>
       LET c == Compounding(settings)
           n == Len(rowPeriods)
           tp == rowPeriods[n]
       IN /\ Len(result.table) = n
          /\ n >= 1
          /\ tp * Scale >= Years(settings) * c
          /\ (tp - 1) * Scale < Years(settings) * c
          /\ {rowPeriods[i] : i \in 1..n} = BoundaryPeriods(tp, c)
          /\ n = (tp \div c) + (IF tp % c = 0 THEN 0 ELSE 1)
          /\ \A i \in 1..n : result.table[i].year = YearLabel(rowPeriods[i], c)

\* C9 witness: a horizon that ends inside a year, after at least one whole year.
C9_Witness ==
  /\ pc = "done"
  /\ Len(rowPeriods) >= 2
  /\ rowPeriods[Len(rowPeriods)] % Compounding(settings) # 0
  /\ Len(result.table) = Len(rowPeriods)

Clamped(value, one) ==
  IF value \in {NaN, PosInfinity, NegInfinity} \/ value <= 0 THEN one ELSE value

\* n is Math.ceil(y * c) for a scaled y and a whole c
IsCeilOfProduct(n, y, c) == n * Scale >= y * c /\ (n - 1) * Scale < y * c

FiniteHorizon == IsFinite(settings.years) /\ IsFinite(settings.compoundingFrequency)

\* the number of periods a finished run went through
PeriodsRun == period - 1

\* C18 as stated: the run uses max(years, 1) and max(compoundingFrequency, 1), so
\* totalPeriods = ceil(max(years, 1) * max(compoundingFrequency, 1)) and every
\* years value below 1 is projected as one year.
C18_ClampIsMax ==
  (pc = "done" /\ FiniteHorizon) =>
    /\ IsCeilOfProduct(PeriodsRun, Max(settings.years, Scale),
                       Max(settings.compoundingFrequency, 1))
    /\ settings.years < Scale => LastRow.year = Scale

\* C18 amended: the run uses years and compoundingFrequency as given when they
\* are above zero and 1 otherwise, so zero and negative values are projected as
\* one year or one period per year, a years value in (0,1) keeps its fractional
\* horizon, and totalPeriods is the ceiling of the product of the two.
C18_ClampIsPositive ==
  (pc = "done" /\ FiniteHorizon) =>
    /\ IsCeilOfProduct(PeriodsRun, Clamped(settings.years, Scale),
                       Clamped(settings.compoundingFrequency, 1))
    /\ settings.years <= 0 =>
         LastRow.year = Scale
    /\ (settings.years > 0 /\ Clamped(settings.compoundingFrequency, 1) = 4) =>
         LastRow.year = ToFixed2(Ratio(PeriodsRun, 4))

\* C18 witness: half a year at quarterly compounding runs two periods and ends
\* at year 0.5.
C18_Witness ==
  /\ pc = "done"
  /\ settings.years = Scale \div 2
  /\ settings.compoundingFrequency = 4
  /\ PeriodsRun = 2
  /\ LastRow.year = Scale \div 2

OutOfDomain(value) == ~IsFinite(value) \/ value <= 0

BadHorizon ==
  OutOfDomain(settings.years) \/ OutOfDomain(settings.compoundingFrequency)

\* C19: when years or compoundingFrequency is NaN, infinite, zero or negative,
\* 1 is used in its place, the period loop terminates and a complete result
\* with at least one table row is returned.
C19_OutOfDomainClamped ==
  /\ [](BadHorizon =>
          /\ OutOfDomain(settings.years) => Years(settings) = Scale
          /\ OutOfDomain(settings.compoundingFrequency) => Compounding(settings) = 1
          /\ pc = "done" =>
               /\ IsCeilOfProduct(PeriodsRun, Clamped(settings.years, Scale),
                                  Clamped(settings.compoundingFrequency, 1))
               /\ Len(result.table) >= 1
               /\ Len(result.chartPoints) = Len(result.table) + 1
               /\ result.table[Len(result.table)].year =
                    ToFixed2(Ratio(PeriodsRun, Clamped(settings.compoundingFrequency, 1)))
               /\ DOMAIN result = {"chartPoints", "table", "totals", "fireMetrics"})
  /\ BadHorizon => <>(pc = "done")

\* C19 witness: a result for years = NaN and compoundingFrequency infinite.
C19_Witness ==
  /\ pc = "done"
  /\ settings.years = NaN
  /\ settings.compoundingFrequency = PosInfinity
  /\ PeriodsRun = 1
  /\ Len(result.table) = 1
  /\ result.table[1].year = Scale

(***************************************************************************)
(* Properties of the date helpers.                                         *)
(***************************************************************************)
IsLeapYear(year) == year % 4 = 0 /\ (year % 100 # 0 \/ year % 400 = 0)

DaysInMonth(year, month) ==
  IF month = 2 THEN (IF IsLeapYear(year) THEN 29 ELSE 28)
  ELSE IF month \in {4, 6, 9, 11} THEN 30 ELSE 31

IsRealDate(year, month, day) ==
  year >= 1 /\ month \in 1..12 /\ day \in 1..DaysInMonth(year, month)

\* the year, month and day written in a date string
WrittenYear(value) == IF value.shape = "slash" THEN value.c ELSE value.a

WrittenMonth(value) == value.b

WrittenDay(value) == IF value.shape = "slash" THEN value.a ELSE value.c

\* the string is a date of the calendar
DenotesDate(value) ==
  /\ value.shape \in {"iso", "slash", "words"}
  /\ IsRealDate(WrittenYear(value), WrittenMonth(value), WrittenDay(value))

\* the string has no day, month and year in it at all
NoDateWritten(value) == value.shape \in {"empty", "looseSlash", "junk"}

\* the calendar date written in purchaseDate is after the day of referenceDate
PurchaseLater ==
  LET y == GetFullYear(referenceDate)
      m == GetMonth(referenceDate) + 1
      d == GetDate(referenceDate)
  IN \/ WrittenYear(purchaseDate) > y
     \/ WrittenYear(purchaseDate) = y /\ WrittenMonth(purchaseDate) > m
     \/ /\ WrittenYear(purchaseDate) = y
        /\ WrittenMonth(purchaseDate) = m
        /\ WrittenDay(purchaseDate) > d

\* the whole months from the day of referenceDate to 31 December of its year:
\* the monthly anniversaries of that day (on the last day of a shorter month)
\* that are no later than 31 December
WholeMonthsToYearEnd ==
  LET y == GetFullYear(referenceDate)
      m == GetMonth(referenceDate) + 1
      d == GetDate(referenceDate)
  IN Cardinality({k \in 1..12 :
       \/ m + k < 12
       \/ m + k = 12 /\ Min(d, DaysInMonth(y, 12)) <= 31})

\* C13: monthsRemainingInYear is 0 when the date is in the future and otherwise
\* the whole months from referenceDate to 31 December of its year (7 for
\* 2024-05-15, 10 for 2024-02-29); it is always a whole number >= 0.
C13_MonthsRemaining ==
  dateResult # NoResult =>
    /\ dateResult.months \in Nat
    /\ dateResult.months = IF dateResult.inFuture THEN 0 ELSE WholeMonthsToYearEnd
    /\ (DenotesDate(purchaseDate) /\ PurchaseLater) => dateResult.months = 0
    /\ (NoDateWritten(purchaseDate) \/ (DenotesDate(purchaseDate) /\ ~PurchaseLater)) =>
         dateResult.months = WholeMonthsToYearEnd
    /\ (StartOfDay(referenceDate) = DateOf(2024, 4, 15) /\ ~dateResult.inFuture) =>
         dateResult.months = 7
    /\ (StartOfDay(referenceDate) = DateOf(2024, 1, 29) /\ ~dateResult.inFuture) =>
         dateResult.months = 10

\* C13 witness: a purchase in January seen from the afternoon of 2024-05-15
\* leaves 7 months.
C13_Witness ==
  /\ dateResult # NoResult
  /\ purchaseDate = Iso(2024, 1, 15)
  /\ referenceDate = DateOf(2024, 4, 15) + 13
  /\ dateResult.months = 7

\* C14: isInFuture is true exactly when the calendar date of the purchase is
\* strictly later than the calendar date of referenceDate, whatever the time of
\* day; the same day is not in the future.
C14_FutureIsStrictlyLaterDay ==
  (dateResult # NoResult /\ (DenotesDate(purchaseDate) \/ NoDateWritten(purchaseDate))) =>
    dateResult.inFuture = (DenotesDate(purchaseDate) /\ PurchaseLater)

\* C14 witness: the day after the reference date, asked in the afternoon, is
\* in the future.
C14_Witness ==
  /\ dateResult # NoResult
  /\ purchaseDate = Iso(2024, 5, 16)
  /\ referenceDate = DateOf(2024, 4, 15) + 13
  /\ dateResult.inFuture = TRUE

\* C15: normalizeDate returns the empty string for every YYYY-MM-DD or
\* DD/MM/YYYY input whose day, month and year are not a date of the calendar.
C15_InvalidDateIsEmpty ==
  (/\ dateResult # NoResult
   /\ purchaseDate.shape \in {"iso", "slash"}
   /\ ~DenotesDate(purchaseDate)) =>
    dateResult.normalized = Empty

\* C16: for a purchase-date string that is not a date, isInFuture and
\* monthsRemainingInYear return what they return for the empty string.
C16_InvalidDateAsEmpty ==
  (dateResult # NoResult /\ ~DenotesDate(purchaseDate)) =>
    /\ dateResult.inFuture = isPurchaseDateInFuture(Empty, referenceDate)
    /\ dateResult.months = getWholeMonthsUntilYearEnd(Empty, referenceDate)

(***************************************************************************)
(* Properties of the payout date.                                          *)
(***************************************************************************)
\* the whole number k with k - 1 < v <= k (v scaled)
CeilingOf(v) == CHOOSE k \in (-1)..(MaxYears + 2) : (k - 1) * Scale < v /\ v <= k * Scale

\* the year of a returned payout date
PayoutYearOf(w) == w.date.iso.a

\* C17: withdrawalDate(yearValue) is 31 December of
\* max(currentCalendarYear - 1 + ceil(yearValue), currentCalendarYear), labelled
\* 31/12/<year>; it is never before the current year, it does not decrease when
\* yearValue grows, and all yearValue in (k-1, k] give the same date.
C17_WithdrawalDate ==
  withdrawalDate # NoResult =>
    LET payoutYear == Max(CurrentYear - 1 + CeilingOf(withdrawalDate.yearValue),
                          CurrentYear)
    IN /\ withdrawalDate.date.iso = Iso(payoutYear, 12, 31)
       /\ withdrawalDate.date.label = Slash(31, 12, payoutYear)
       /\ payoutYear >= CurrentYear
       /\ previousWithdrawalDate # NoResult =>
            /\ previousWithdrawalDate.yearValue <= withdrawalDate.yearValue =>
                 PayoutYearOf(previousWithdrawalDate) <= PayoutYearOf(withdrawalDate)
            /\ CeilingOf(previousWithdrawalDate.yearValue)
                   = CeilingOf(withdrawalDate.yearValue) =>
                 previousWithdrawalDate.date = withdrawalDate.date

\* C17 witness: asked in 2025, years 2.5 and 2.25 both pay out on 31/12/2027.
C17_Witness ==
  /\ CurrentYear = 2025
  /\ withdrawalDate # NoResult
  /\ previousWithdrawalDate # NoResult
  /\ previousWithdrawalDate.yearValue = (5 * Scale) \div 2
  /\ withdrawalDate.yearValue = (9 * Scale) \div 4
  /\ withdrawalDate.date.label = Slash(31, 12, 2027)
  /\ previousWithdrawalDate.date = withdrawalDate.date

(***************************************************************************)
(* Properties of the merged chart data.                                    *)
(***************************************************************************)
ChartComputed == chartData # << >>

\* the years of the chart points of one analysis
YearsOf(analysis) ==
  {analysis.projection.chartPoints[i].year :
     i \in DOMAIN analysis.projection.chartPoints}

AllChartYears == UNION {YearsOf(scenarioAnalyses[i]) : i \in DOMAIN scenarioAnalyses}

\* C11: the record of year y has the key of scenario s exactly when s has a
\* chart point with year y, and the value under the key is that chart point's
\* balance; a scenario without a point at y has no key in the record.
C11_RecordHoldsPointBalances ==
  ChartComputed =>
    \A r \in DOMAIN chartData : \A i \in DOMAIN scenarioAnalyses :
      LET id == scenarioAnalyses[i].scenario.id
          points == scenarioAnalyses[i].projection.chartPoints
      IN /\ id \in DOMAIN chartData[r] <=> chartData[r].year \in YearsOf(scenarioAnalyses[i])
         /\ \A p \in DOMAIN points :
              points[p].year = chartData[r].year => chartData[r][id] = points[p].balance

\* C12: chartData has exactly one record for each year that occurs in the chart
\* points of any scenario, and the records are in strictly ascending order of
\* year, whatever the order of the scenarios and of their points.
C12_OneRecordPerYearAscending ==
  ChartComputed =>
    /\ {chartData[r].year : r \in DOMAIN chartData} = AllChartYears
    /\ \A r \in 1..(Len(chartData) - 1) : chartData[r].year < chartData[r + 1].year
    /\ Len(chartData) = Cardinality(AllChartYears)

\* C12 witness: the second scenario adds year 1.5 after the first one added
\* years 1 and 2, and the record of year 1.5 comes before that of year 2.
C12_Witness ==
  /\ ChartComputed
  /\ scenarios[1].settings.compoundingFrequency = 1
  /\ scenarios[1].settings.years = 2 * Scale
  /\ scenarios[2].settings.compoundingFrequency = 2
  /\ Len(chartData) = 4
  /\ chartData[3].year = (3 * Scale) \div 2
  /\ DOMAIN chartData[2] = {"year", "default", "scenario-2"}
  /\ DOMAIN chartData[3] = {"year", "scenario-2"}
  /\ DOMAIN chartData[4] = {"year", "default"}

(***************************************************************************)
(* Properties of the autosave.                                             *)
(***************************************************************************)
\* at most one save is waiting, it carries the scenarios of now, and nothing
\* waits or has been saved while the initial load is in progress
PendingSaveIsLatest ==
  /\ Len(debounce) <= 1
  /\ debounce # << >> => Head(debounce) = scenarios /\ ~loading
  /\ loading => saves = << >>

\* a save that is issued carries the scenarios of that moment, and a change
\* of scenarios after the load leaves exactly the new scenarios waiting
SaveStep ==
  /\ saves' # saves => ~loading /\ saves' = Append(saves, scenarios)
  /\ (scenarios' # scenarios /\ ~loading' /\ hasConfigAPI) => debounce' = <<scenarios'>>

\* the last save issued is the scenarios of now and nothing is waiting
LatestSaved ==
  /\ saves # << >>
  /\ saves[Len(saves)] = scenarios
  /\ debounce = << >>

\* C20: once the initial load has finished every change of scenarios cancels
\* the save waiting in the debounce and schedules a new one; after the edits
\* stop a save with the latest scenarios is eventually issued and no older
\* state is saved after it; no save is issued while the load is in progress.
C20_LatestIsPersisted ==
  /\ []PendingSaveIsLatest
  /\ [][SaveStep]_vars
  /\ hasConfigAPI => <>[]LatestSaved

\* C20 witness: two saves were issued after the load, the later one with the
\* last edit, and an edit in between was never saved.
C20_Witness ==
  /\ ~loading
  /\ Len(saves) = 2
  /\ saves[1][1].name = 0
  /\ saves[2][1].name = MaxEdits
  /\ saves[2] = scenarios
  /\ debounce = << >>

(***************************************************************************)
(* The contribution of one period.                                         *)
(***************************************************************************)
\* the months the caller passed, 12 when it passed none, brought into 0..12
ClampedMonths ==
  LET given == IF HasMonths(options) THEN options.remainingContributionMonths ELSE 12
  IN IF given < 0 THEN 0 ELSE IF given > 12 THEN 12 ELSE given

\* the contribution period p is to receive
DueContribution(p) ==
  IF p <= Compounding(settings)
    THEN (ContributionPerPeriod(settings) * ClampedMonths) \div 12
    ELSE ContributionPerPeriod(settings)

\* a step of the loop: the period counter advances inside a call
LoopStep == pc = "loop" /\ period' = period + 1

\* what the step added to the cumulative contributions
Added == totalContributions' - totalContributions

\* C21: the contribution added in period p is contributionPerPeriod times
\* clamp(remainingContributionMonths, 0, 12) / 12 in the first compounding
\* periods and the full contributionPerPeriod after them; omitted months count
\* as 12, months above 12 as 12 and months below 0 as 0
C21_FirstYearContribution ==
  [][LoopStep /\ DueContribution(period) >= 0 => Added = DueContribution(period)]_vars

\* months above 12 were passed, two half-year periods received a full
\* contribution each and the third period received one too
C21_Witness ==
  /\ HasMonths(options)
  /\ options.remainingContributionMonths = 15
  /\ settings.compoundingFrequency = 2
  /\ settings.contribution = 100 * Scale
  /\ period = 4
  /\ totalContributions = settings.principal + 3 * 600 * Scale

\* the row the step appended to the table, where it appended one
RowEmitted == Len(table') = Len(table) + 1

NewRow == table'[Len(table')]

C23_NonPositiveContributionSkipped ==
  [][LoopStep /\ DueContribution(period) <= 0 =>
       /\ totalContributions' = totalContributions
       /\ balance' = Mul(balance, Scale + periodicRate)]_vars

\* two periods with a contribution of -100 have run: the contributions are
\* still the principal, and the balance only grew
C23_Witness ==
  /\ settings.contribution = -100 * Scale
  /\ settings.principal = 1000 * Scale
  /\ period = 3
  /\ totalContributions = settings.principal
  /\ balance > settings.principal

(***************************************************************************)
(* The totals of a finished call.                                          *)
(***************************************************************************)
RECURSIVE ContributedThrough(_)
\* everything the periods 1..p were to add: what is zero or negative is skipped
ContributedThrough(p) ==
  IF p = 0 THEN 0 ELSE Max(DueContribution(p), 0) + ContributedThrough(p - 1)

\* the final nominal balance discounted over the clamped settings years
DiscountedOverYears ==
  Div(balance, Pow(Scale + settings.inflationRate \div 100, Clamped(settings.years, Scale)))

\* C24: totals.endingBalance is the final nominal balance divided by
\* (1 + inflationRate/100) to the power of the clamped settings years, not of
\* the last row's rounded label; totals.contributions is the principal plus
\* every contribution added; totals.growth is
\* max(endingBalance - contributions, 0)
C24_Totals ==
  pc = "done" =>
    /\ result.totals.endingBalance = DiscountedOverYears
    /\ result.totals.contributions =
         settings.principal + ContributedThrough(PeriodsRun)
    /\ result.totals.growth =
         Max(result.totals.endingBalance - result.totals.contributions, 0)

\* half a year compounded yearly: the only row is labelled 1, the totals are
\* discounted over 0.5 years and differ from the row
C24_Witness ==
  /\ pc = "done"
  /\ settings.years = Scale \div 2
  /\ settings.compoundingFrequency = 1
  /\ settings.contribution = 100 * Scale
  /\ LastRow.year = Scale
  /\ result.totals.endingBalance > LastRow.endingBalance
  /\ result.totals.contributions = settings.principal + 1200 * Scale

\* C25: with 12 contribution months and a positive contribution, the cumulative
\* contributions grow by exactly contribution x contributionFrequency over each
\* full year of compounding periods, whatever the compounding frequency: every
\* period adds the same share, and compounding of them make up the yearly sum
C25_YearlyContribution ==
  [][LoopStep /\ ClampedMonths = 12 /\ settings.contribution > 0 =>
       LET yearly == settings.contribution * settings.contributionFrequency
           compounding == settings.compoundingFrequency
       IN /\ Added * compounding = yearly
          /\ (totalContributions' - settings.principal) * compounding
               = period * yearly]_vars

\* 100 contributed 6 times a year, compounded quarterly: after two full years
\* of 4 periods each the contributions are the principal plus 2 x 600
C25_Witness ==
  /\ HasMonths(options)
  /\ options.remainingContributionMonths = 12
  /\ settings.contribution = 100 * Scale
  /\ settings.contributionFrequency = 6
  /\ settings.compoundingFrequency = 4
  /\ period = 9
  /\ totalContributions = settings.principal + 2 * 600 * Scale

\* C28: totals.contributions always equals the contributions of the last table
\* row, and whenever the last row's year label equals the clamped years the
\* ending balance and the growth of the totals equal the last row's
C28_TotalsMatchLastRow ==
  pc = "done" =>
    /\ Len(table) >= 1
    /\ result.totals.contributions = LastRow.contributions
    /\ (LastRow.year = Clamped(settings.years, Scale) =>
          /\ result.totals.endingBalance = LastRow.endingBalance
          /\ result.totals.growth = LastRow.growth)

\* two years at 3 % inflation compounded quarterly: the last row is labelled 2
\* and the totals repeat its discounted balance and its growth
C28_Witness ==
  /\ pc = "done"
  /\ settings.years = 2 * Scale
  /\ settings.compoundingFrequency = 4
  /\ settings.inflationRate = 3 * Scale
  /\ settings.principal = 1000 * Scale
  /\ LastRow.year = 2 * Scale
  /\ result.totals.endingBalance = LastRow.endingBalance
  /\ result.totals.endingBalance < balance
  /\ result.totals.growth = LastRow.growth
  /\ result.totals.growth > 0

(***************************************************************************)
(* The months left in the year, as App.tsx hands them to buildProjection.  *)
(***************************************************************************)
\* C26: for every purchase date that is not in the future the months remaining
\* are 11 minus the zero-based month of referenceDate, whatever its day and
\* whatever the purchase date: the decrement for an unreached day never fires;
\* the result lies in 0..11 and never is 12, so the first-year contribution
\* factor buildProjection derives from it never reaches 1
C26_MonthsAreElevenMinusMonth ==
  (dateResult # NoResult /\ ~dateResult.inFuture) =>
    /\ dateResult.months = 11 - GetMonth(referenceDate)
    /\ dateResult.months \in 0..11
    /\ FirstYearContributionFactor([remainingContributionMonths |-> dateResult.months])
         < Scale

\* a purchase of December 2023 seen from the afternoon of 31 January 2024
\* leaves 11 months
C26_Witness ==
  /\ dateResult # NoResult
  /\ purchaseDate = Iso(2023, 12, 15)
  /\ referenceDate = DateOf(2024, 0, 31) + 13
  /\ ~dateResult.inFuture
  /\ dateResult.months = 11

\* C27: normalizeDate is idempotent, normalizeDate(normalizeDate(x)) equals
\* normalizeDate(x) for every input string x, and every output that is not
\* empty has the shape YYYY-MM-DD
C27_NormalizeIdempotent ==
  dateResult # NoResult =>
    /\ dateResult.renormalized = dateResult.normalized
    /\ (dateResult.normalized # Empty => dateResult.normalized.shape = "iso")

(***************************************************************************)
(* The scenario list.                                                      *)
(***************************************************************************)
\* the delete button was clicked in this step
DeleteClicked == deletes' = deletes + 1

\* C29: after any sequence of add, duplicate, delete, switch, reset and load
\* the list holds at least one scenario (a delete with one scenario left
\* changes nothing, an empty loaded list is replaced by the defaults), and once
\* a handler has completed activeScenarioId is the id of a scenario of the list
C29_ListAndActiveScenario ==
  /\ [](/\ Len(scenarios) >= 1
        /\ \E i \in DOMAIN scenarios : scenarios[i].id = activeScenarioId)
  /\ [][DeleteClicked /\ Len(scenarios) = 1 =>
         scenarios' = scenarios /\ activeScenarioId' = activeScenarioId]_vars
  /\ [][load' = "fulfilled" /\ load = "pending" =>
         scenarios' \in {getDefaultScenarios} \cup
                        {c.scenarios : c \in {d \in StoredConfigs : d.scenarios # << >>}}]_vars

\* the stored scenario was loaded, one scenario was added, and of two clicks
\* on delete one found a single scenario: a single scenario is left, the
\* active one
C29_Witness ==
  /\ load = "settled"
  /\ created = 1
  /\ deletes = 2
  /\ Len(scenarios) = 1
  /\ scenarios[1].id = "scenario-2"
  /\ activeScenarioId = "scenario-2"

\* a scenario was created in this step, by add or by duplicate
ScenarioCreated == created' = created + 1

\* C30: starting from the default list, after any sequence of add, duplicate
\* and delete, the scenario that add or duplicate creates gets a color that
\* differs from every color already in the list, also once the 8 colors of the
\* palette are used up and hsl colors are in use
C30_NewColorIsUnused ==
  [][ScenarioCreated =>
       \A i \in DOMAIN scenarios :
         scenarios[i].color # scenarios'[Len(scenarios')].color]_vars

=============================================================================
